---- MODULE Spec2Model ----
(***************************************************************************)
(* ClaRunner.execute (src/src/claRunner.ts) as a state machine.            *)
(*                                                                         *)
(* One run of execute is modelled.  execute is an async function: every    *)
(* `await` is a position of pc, every collaborator call is issued by the   *)
(* step of execute that makes it and is settled (resolved or rejected) by  *)
(* the platform in a step of its own, so that the calls of a Promise.all   *)
(* settle in any order.  The collaborators themselves (ClaFile, AuthorMap, *)
(* Allowlist, PullComments, ...) are not part of claRunner.ts; they are    *)
(* modelled from their contracts in spec.md.                               *)
(***************************************************************************)
EXTENDS Integers, Sequences, FiniteSets, TLC

\* ---------------------------------------------------------------- bounds
MaxAuthors == 2     \* commit authors returned by getAuthors
MaxListed  == 1     \* allowlist entries, organization members
MaxSigned  == 1     \* entries of the CLA file when it is fetched

AuthorNames == {"alice", "bob", "carol"}

PayloadActions == {"closed", "issue_comment", "opened"}

\* Collaborator calls that execute can make.
Calls == {"lock", "getAuthors", "listMembers", "getClaFile", "getNewSignatures",
          "commitClaFile", "postToBlockchain", "setClaComment", "rerunLastCheck"}

VARIABLES
    payloadAction,              \* settings.payloadAction
    isPullRequest,              \* context.payload.issue?.pull_request is set
    allowOrganizationMembers,   \* settings.allowOrganizationMembers
    allowlist,                  \* names the Allowlist exempts
    orgUsers,                   \* the organization's members on the platform
    pc,                         \* position of execute
    result,                     \* "none", "true", "false" or "thrown"
    failed,                     \* core.setFailed has been called
    callState,                  \* per call: "idle", "pending", "ok", "failed"
    callCount,                  \* per call: number of invocations
    rawAuthors,                 \* value of getAuthors()
    organizationMembers,        \* value of getOrganizationMembers()
    requiredAuthors,
    fetchedCla,                 \* signed authors of the CLA file as fetched
    claFile,                    \* signed authors of the in-memory ClaFile
    scanned,                    \* value of getNewSignatures(authorMap)
    authorMap,
    newSignature,
    commitMessage,              \* argument of commitClaFile
    posted,                     \* argument of postToBlockchain
    commentArg                  \* argument of setClaComment

vars == <<payloadAction, isPullRequest, allowOrganizationMembers, allowlist,
          orgUsers, pc, result, failed, callState, callCount, rawAuthors,
          organizationMembers, requiredAuthors, fetchedCla, claFile, scanned,
          authorMap, newSignature, commitMessage, posted, commentArg>>

settingsVars == <<payloadAction, isPullRequest, allowOrganizationMembers,
                  allowlist, orgUsers>>

dataVars == <<rawAuthors, organizationMembers, requiredAuthors, fetchedCla,
              claFile, scanned, authorMap, newSignature, commitMessage,
              posted, commentArg>>

\* ------------------------------------------------------- generic helpers
NoDupSeqs(S, n) ==
    {s \in UNION {[1..k -> S] : k \in 0..n} :
        \A i, j \in DOMAIN s : i # j => s[i] # s[j]}

SmallSubsets(S, n) == {T \in SUBSET S : Cardinality(T) <= n}

MapSeq(s, F(_)) == [i \in DOMAIN s |-> F(s[i])]

\* Array.prototype.join(', ') on a sequence of strings.
RECURSIVE Join(_)
Join(s) ==
    IF Len(s) = 0 THEN ""
    ELSE IF Len(s) = 1 THEN s[1]
    ELSE s[1] \o ", " \o Join(Tail(s))

\* ----------------------------------------------------------- domain data
Author(n) == [name |-> n]
User(n)   == [login |-> n]

Authors == {Author(n) : n \in AuthorNames}

NameOf(a) == a.name
LoginOf(u) == u.login

\* --------------------------------------------- collaborators (contracts)
\* Allowlist.isUserAllowlisted(author)
IsUserAllowlisted(a) == a.name \in allowlist

\* ClaFile.mapSignedAuthors(authors): an AuthorMap with one entry per author
\* passed in, signed iff the author is in the file.
MapSignedAuthors(file, authors) ==
    [i \in DOMAIN authors |->
        [name |-> authors[i].name,
         signed |-> \E j \in DOMAIN file : file[j].name = authors[i].name]]

\* AuthorMap.allSigned()
AllSigned(map) == \A i \in DOMAIN map : map[i].signed

\* ClaFile.addSignature(authors): the authors not yet in the file, which are
\* appended to it.
NewlyAdded(file, authors) ==
    SelectSeq(authors, LAMBDA a : \A j \in DOMAIN file : file[j].name # a.name)

AddSignature(file, authors) == file \o NewlyAdded(file, authors)

\* PullComments.getNewSignatures(authorMap) when the authors in `commenters`
\* have posted the confirmation keyword: the unsigned authors of the map
\* among them, each once.
GetNewSignatures(map, commenters) ==
    MapSeq(SelectSeq(map, LAMBDA e : ~e.signed /\ e.name \in commenters),
           LAMBDA e : Author(e.name))

\* ------------------------------------------------------------ call logs
Issue(cs) ==
    /\ callState' = [c \in Calls |-> IF c \in cs THEN "pending" ELSE callState[c]]
    /\ callCount' = [c \in Calls |-> IF c \in cs THEN callCount[c] + 1
                                     ELSE callCount[c]]

NoCall == UNCHANGED <<callState, callCount>>

\* ------------------------------------------------------------------ Init
Init ==
    /\ payloadAction \in PayloadActions
    /\ isPullRequest \in BOOLEAN
    /\ allowOrganizationMembers \in BOOLEAN
    /\ allowlist \in SmallSubsets(AuthorNames, MaxListed)
    /\ orgUsers \in NoDupSeqs({User(n) : n \in AuthorNames}, MaxListed)
    /\ pc = "start"
    /\ result = "none"
    /\ failed = FALSE
    /\ callState = [c \in Calls |-> "idle"]
    /\ callCount = [c \in Calls |-> 0]
    /\ rawAuthors = <<>>
    /\ organizationMembers = <<>>
    /\ requiredAuthors = <<>>
    /\ fetchedCla = <<>>
    /\ claFile = <<>>
    /\ scanned = <<>>
    /\ authorMap = <<>>
    /\ newSignature = <<>>
    /\ commitMessage = ""
    /\ posted = <<>>
    /\ commentArg = <<>>

\* ------------------------------------------------- the platform's answers
\* A pending call that returns no value resolves.
VoidCalls == {"lock", "commitClaFile", "postToBlockchain", "setClaComment",
              "rerunLastCheck"}

Resolve(c) ==
    /\ c \in VoidCalls
    /\ callState[c] = "pending"
    /\ callState' = [callState EXCEPT ![c] = "ok"]
    /\ UNCHANGED <<settingsVars, pc, result, failed, callCount, dataVars>>

\* A pending call fails (network error, rate limit, ...).
Reject(c) ==
    /\ callState[c] = "pending"
    /\ callState' = [callState EXCEPT ![c] = "failed"]
    /\ UNCHANGED <<settingsVars, pc, result, failed, callCount, dataVars>>

\* pullAuthors.getAuthors() resolves with the commit authors, deduplicated.
ResolveGetAuthors(as) ==
    /\ callState["getAuthors"] = "pending"
    /\ callState' = [callState EXCEPT !["getAuthors"] = "ok"]
    /\ rawAuthors' = as
    /\ UNCHANGED <<settingsVars, pc, result, failed, callCount,
                   organizationMembers, requiredAuthors, fetchedCla, claFile,
                   scanned, authorMap, newSignature, commitMessage, posted,
                   commentArg>>

\* claFileRepository.getClaFile() resolves with the persisted file.
ResolveGetClaFile(file) ==
    /\ callState["getClaFile"] = "pending"
    /\ callState' = [callState EXCEPT !["getClaFile"] = "ok"]
    /\ fetchedCla' = file
    /\ UNCHANGED <<settingsVars, pc, result, failed, callCount, rawAuthors,
                   organizationMembers, requiredAuthors, claFile, scanned,
                   authorMap, newSignature, commitMessage, posted, commentArg>>

\* pullComments.getNewSignatures(authorMap) resolves; `commenters` are the
\* users whose comments carry the confirmation keyword.
ResolveGetNewSignatures(commenters) ==
    /\ callState["getNewSignatures"] = "pending"
    /\ callState' = [callState EXCEPT !["getNewSignatures"] = "ok"]
    /\ scanned' = GetNewSignatures(authorMap, commenters)
    /\ UNCHANGED <<settingsVars, pc, result, failed, callCount, rawAuthors,
                   organizationMembers, requiredAuthors, fetchedCla, claFile,
                   authorMap, newSignature, commitMessage, posted, commentArg>>

\* getOrganizationMembers, after its await: response.data.map(u => u.login)
OrganizationLogins(data) == MapSeq(data, LoginOf)

ResolveListMembers ==
    /\ callState["listMembers"] = "pending"
    /\ callState' = [callState EXCEPT !["listMembers"] = "ok"]
    /\ organizationMembers' = OrganizationLogins(orgUsers)
    /\ UNCHANGED <<settingsVars, pc, result, failed, callCount, rawAuthors,
                   requiredAuthors, fetchedCla, claFile, scanned, authorMap,
                   newSignature, commitMessage, posted, commentArg>>

\* ------------------------------------------------------------- execute
\* line 47
IsClosed == payloadAction = "closed"

\* Mutation of IsSkippedIssueComment: the pull-request test is inverted.
IsSkippedIssueCommentInverted == payloadAction = "issue_comment" /\ isPullRequest

\* line 51
IsSkippedIssueComment == payloadAction = "issue_comment" /\ ~isPullRequest

\* Array.prototype.includes
Includes(s, x) == \E i \in DOMAIN s : s[i] = x

\* Mutation of RequiredAuthors: organization members are not dropped.
RequiredAuthorsKeepMembers(authors, members) ==
    SelectSeq(authors, LAMBDA a : ~IsUserAllowlisted(a))

\* line 62
RequiredAuthors(authors, members) ==
    SelectSeq(authors,
              LAMBDA a : ~IsUserAllowlisted(a) /\ ~Includes(members, a.name))

\* lines 57-60: the calls that Promise.all issues; getOrganizationMembers
\* calls the platform only when the exemption is enabled (line 113).
FetchCalls ==
    IF allowOrganizationMembers THEN {"getAuthors", "listMembers"}
    ELSE {"getAuthors"}

\* Mutation of WriteBackCalls: the check rerun is left out.
WriteBackCallsNoRerun == {"commitClaFile", "postToBlockchain", "setClaComment"}

\* lines 80-85
WriteBackCalls ==
    {"commitClaFile", "postToBlockchain", "setClaComment", "rerunLastCheck"}

\* The calls execute is waiting for at each await.
Awaited ==
    CASE pc = "awaitFetch"      -> FetchCalls
      [] pc = "awaitClaFile"    -> {"getClaFile"}
      [] pc = "awaitSignatures" -> {"getNewSignatures"}
      [] pc = "awaitWriteBack"  -> WriteBackCalls
      [] pc = "awaitComment"    -> {"setClaComment"}
      [] OTHER                  -> {}

\* Mutation of AwaitFulfilled: Promise.allSettled, a rejection counts as done.
AwaitSettled ==
    Awaited # {} /\ \A c \in Awaited : callState[c] \in {"ok", "failed"}

\* await / Promise.all: fulfilled once every call is, rejected as soon as
\* one call is.
AwaitFulfilled == Awaited # {} /\ \A c \in Awaited : callState[c] = "ok"

AwaitRejected == \E c \in Awaited : callState[c] = "failed"

\* Mutation of HasNewSignature: the write-back branch is always taken.
HasNewSignatureAlways(sigs) == Len(sigs) >= 0

\* line 76
HasNewSignature(sigs) == Len(sigs) > 0

\* line 77
NewNames(sigs) == Join(MapSeq(sigs, NameOf))

\* line 81
CommitMessage(sigs) == "Add " \o NewNames(sigs) \o "."

\* Mutation of RecomputedMap: the map computed before the scan is kept.
RecomputedMapStale(file, authors) == MapSignedAuthors(fetchedCla, authors)

\* line 79
RecomputedMap(file, authors) == MapSignedAuthors(file, authors)

\* lines 47-49, 98-101: closed pull request, the lock call is issued
StartClosed ==
    /\ pc = "start"
    /\ IsClosed
    /\ Issue({"lock"})
    /\ pc' = "awaitLock"
    /\ UNCHANGED <<settingsVars, result, failed, dataVars>>

\* Mutation of LockSettled: no try/catch, a failed lock rejects execute.
LockSettledUncaught ==
    /\ pc = "awaitLock"
    /\ callState["lock"] \in {"ok", "failed"}
    /\ pc' = "done"
    /\ result' = IF callState["lock"] = "ok" THEN "true" ELSE "thrown"
    /\ NoCall
    /\ UNCHANGED <<settingsVars, failed, dataVars>>

\* lines 100-109, 50: the lock call has settled; try/catch takes both outcomes
LockSettled ==
    /\ pc = "awaitLock"
    /\ callState["lock"] \in {"ok", "failed"}
    /\ pc' = "done"
    /\ result' = "true"
    /\ NoCall
    /\ UNCHANGED <<settingsVars, failed, dataVars>>

\* lines 51-54
StartSkip ==
    /\ pc = "start"
    /\ ~IsClosed
    /\ IsSkippedIssueComment
    /\ pc' = "done"
    /\ result' = "true"
    /\ NoCall
    /\ UNCHANGED <<settingsVars, failed, dataVars>>

\* lines 57-60, 112-119
StartFetch ==
    /\ pc = "start"
    /\ ~IsClosed
    /\ ~IsSkippedIssueComment
    /\ Issue(FetchCalls)
    /\ pc' = "awaitFetch"
    /\ UNCHANGED <<settingsVars, result, failed, dataVars>>

\* lines 62-67: nobody is left after the filter
FetchDoneNone ==
    /\ pc = "awaitFetch"
    /\ AwaitFulfilled
    /\ requiredAuthors' = RequiredAuthors(rawAuthors, organizationMembers)
    /\ Len(requiredAuthors') = 0
    /\ pc' = "done"
    /\ result' = "true"
    /\ NoCall
    /\ UNCHANGED <<settingsVars, failed, rawAuthors, organizationMembers,
                   fetchedCla, claFile, scanned, authorMap, newSignature,
                   commitMessage, posted, commentArg>>

\* Mutation of FetchDoneSome: no early return when nobody is required.
FetchDoneAlways ==
    /\ pc = "awaitFetch"
    /\ AwaitFulfilled
    /\ requiredAuthors' = RequiredAuthors(rawAuthors, organizationMembers)
    /\ Issue({"getClaFile"})
    /\ pc' = "awaitClaFile"
    /\ UNCHANGED <<settingsVars, result, failed, rawAuthors,
                   organizationMembers, fetchedCla, claFile, scanned,
                   authorMap, newSignature, commitMessage, posted, commentArg>>

\* lines 62-72: some authors are required, the CLA file is requested
FetchDoneSome ==
    /\ pc = "awaitFetch"
    /\ AwaitFulfilled
    /\ requiredAuthors' = RequiredAuthors(rawAuthors, organizationMembers)
    /\ Len(requiredAuthors') # 0
    /\ Issue({"getClaFile"})
    /\ pc' = "awaitClaFile"
    /\ UNCHANGED <<settingsVars, result, failed, rawAuthors,
                   organizationMembers, fetchedCla, claFile, scanned,
                   authorMap, newSignature, commitMessage, posted, commentArg>>

\* lines 72-75: the file is mapped and the comment scan is requested
ClaFileDone ==
    /\ pc = "awaitClaFile"
    /\ AwaitFulfilled
    /\ claFile' = fetchedCla
    /\ authorMap' = MapSignedAuthors(fetchedCla, requiredAuthors)
    /\ Issue({"getNewSignatures"})
    /\ pc' = "awaitSignatures"
    /\ UNCHANGED <<settingsVars, result, failed, rawAuthors,
                   organizationMembers, requiredAuthors, fetchedCla, scanned,
                   newSignature, commitMessage, posted, commentArg>>

\* lines 75-85: new signatures, the four write-back calls are issued
SignaturesDoneNew ==
    /\ pc = "awaitSignatures"
    /\ AwaitFulfilled
    /\ newSignature' = NewlyAdded(claFile, scanned)
    /\ claFile' = AddSignature(claFile, scanned)
    /\ HasNewSignature(newSignature')
    /\ authorMap' = RecomputedMap(claFile', requiredAuthors)
    /\ commitMessage' = CommitMessage(newSignature')
    /\ posted' = newSignature'
    /\ commentArg' = authorMap'
    /\ Issue(WriteBackCalls)
    /\ pc' = "awaitWriteBack"
    /\ UNCHANGED <<settingsVars, result, failed, rawAuthors,
                   organizationMembers, requiredAuthors, fetchedCla, scanned>>

\* lines 75-76, 86-88: no new signature, only the comment is refreshed
SignaturesDoneNone ==
    /\ pc = "awaitSignatures"
    /\ AwaitFulfilled
    /\ newSignature' = NewlyAdded(claFile, scanned)
    /\ claFile' = AddSignature(claFile, scanned)
    /\ ~HasNewSignature(newSignature')
    /\ commentArg' = authorMap
    /\ Issue({"setClaComment"})
    /\ pc' = "awaitComment"
    /\ UNCHANGED <<settingsVars, result, failed, rawAuthors,
                   organizationMembers, requiredAuthors, fetchedCla, scanned,
                   authorMap, commitMessage, posted>>

\* lines 80-85 / 87, then 90, 95: the write-back is over, everyone has signed
FinishSigned ==
    /\ pc \in {"awaitWriteBack", "awaitComment"}
    /\ AwaitFulfilled
    /\ AllSigned(authorMap)
    /\ pc' = "done"
    /\ result' = "true"
    /\ NoCall
    /\ UNCHANGED <<settingsVars, failed, dataVars>>

\* Mutation of FinishUnsigned: setFailed is not called before returning false.
FinishUnsignedSilent ==
    /\ pc \in {"awaitWriteBack", "awaitComment"}
    /\ AwaitFulfilled
    /\ ~AllSigned(authorMap)
    /\ pc' = "failing"
    /\ NoCall
    /\ UNCHANGED <<settingsVars, result, failed, dataVars>>

\* lines 80-85 / 87, then 90-91: signatures are missing, setFailed is called
FinishUnsigned ==
    /\ pc \in {"awaitWriteBack", "awaitComment"}
    /\ AwaitFulfilled
    /\ ~AllSigned(authorMap)
    /\ failed' = TRUE
    /\ pc' = "failing"
    /\ NoCall
    /\ UNCHANGED <<settingsVars, result, dataVars>>

\* line 92
ReturnFalse ==
    /\ pc = "failing"
    /\ pc' = "done"
    /\ result' = "false"
    /\ NoCall
    /\ UNCHANGED <<settingsVars, failed, dataVars>>

\* An awaited call outside try/catch was rejected: execute rejects.
Throw ==
    /\ AwaitRejected
    /\ pc' = "done"
    /\ result' = "thrown"
    /\ NoCall
    /\ UNCHANGED <<settingsVars, failed, dataVars>>

Next ==
    \/ StartClosed
    \/ LockSettled
    \/ StartSkip
    \/ StartFetch
    \/ FetchDoneNone
    \/ FetchDoneSome
    \/ ClaFileDone
    \/ SignaturesDoneNew
    \/ SignaturesDoneNone
    \/ FinishSigned
    \/ FinishUnsigned
    \/ ReturnFalse
    \/ Throw
    \/ \E c \in Calls : Resolve(c)
    \/ \E c \in Calls : Reject(c)
    \/ \E as \in NoDupSeqs(Authors, MaxAuthors) : ResolveGetAuthors(as)
    \/ ResolveListMembers
    \/ \E file \in NoDupSeqs(Authors, MaxSigned) : ResolveGetClaFile(file)
    \/ \E commenters \in SUBSET AuthorNames : ResolveGetNewSignatures(commenters)

Spec == Init /\ [][Next]_vars

TypeOK ==
    /\ pc \in {"start", "awaitLock", "awaitFetch", "awaitClaFile",
               "awaitSignatures", "awaitWriteBack", "awaitComment", "failing",
               "done"}
    /\ result \in {"none", "true", "false", "thrown"}
    /\ failed \in BOOLEAN
    /\ \A c \in Calls : callState[c] \in {"idle", "pending", "ok", "failed"}
    /\ (pc = "done") = (result # "none")

\* ---------------------------------------------------------------- claims
Names(s) == {s[i].name : i \in DOMAIN s}

OrgLogins == {orgUsers[i].login : i \in DOMAIN orgUsers}

WriteBack == {"commitClaFile", "postToBlockchain", "setClaComment",
              "rerunLastCheck"}

\* The run is neither a closed event nor an issue comment outside a pull
\* request.
Evaluating ==
    /\ payloadAction # "closed"
    /\ ~(payloadAction = "issue_comment" /\ ~isPullRequest)

\* C1: in a run that reaches the final determination, execute returns true
\* iff every required author is in the CLA file as it is after this run's
\* signatures were added; setFailed is raised exactly in the runs that return
\* false, and before the return.
C1_ResultIsAllSigned ==
    (Evaluating /\ Len(requiredAuthors) > 0) =>
        /\ result = "true" => /\ Names(requiredAuthors) \subseteq Names(claFile)
                              /\ ~failed
        /\ result = "false" => /\ ~(Names(requiredAuthors) \subseteq Names(claFile))
                               /\ failed
        /\ pc = "failing" => failed
        /\ failed => /\ pc \in {"failing", "done"}
                     /\ result \in {"none", "false"}

C1_Witness ==
    /\ Evaluating
    /\ Len(requiredAuthors) = 2
    /\ Len(newSignature) = 1
    /\ result = "false"
    /\ failed

\* C2: on a closed event execute makes one lock attempt, calls no other
\* collaborator and returns true whether the lock succeeds or fails; it never
\* rejects.
C2_ClosedLocksAndReturnsTrue ==
    payloadAction = "closed" =>
        /\ \A c \in Calls \ {"lock"} : callCount[c] = 0
        /\ callCount["lock"] = (IF pc = "start" THEN 0 ELSE 1)
        /\ result \in {"none", "true"}
        /\ pc = "done" => result = "true"
        /\ ~failed

C2_Witness ==
    /\ payloadAction = "closed"
    /\ callState["lock"] = "failed"
    /\ callCount["lock"] = 1
    /\ result = "true"

\* C3 as stated: an author who is allowlisted or a member of the organization
\* never appears in requiredAuthors.
C3_MembersNeverRequired ==
    \A i \in DOMAIN requiredAuthors :
        /\ requiredAuthors[i].name \notin allowlist
        /\ requiredAuthors[i].name \notin OrgLogins

\* C3 as amended: an author who is allowlisted, or who is a member of the
\* organization while allowOrganizationMembers is set, never appears in
\* requiredAuthors, and so in none of the author map, the scan result, the new
\* signatures, the notarized signatures or the status comment.
Exempt(n) == n \in allowlist \/ (allowOrganizationMembers /\ n \in OrgLogins)

C3_ExemptNeverRequired ==
    \A n \in Names(requiredAuthors) \cup Names(authorMap) \cup Names(scanned)
              \cup Names(newSignature) \cup Names(posted) \cup Names(commentArg) :
        /\ ~Exempt(n)
        /\ n \in Names(rawAuthors)

C3_Witness ==
    /\ allowOrganizationMembers
    /\ Len(rawAuthors) = 2
    /\ Names(rawAuthors) \cap OrgLogins # {}
    /\ Len(requiredAuthors) = 1
    /\ callState["setClaComment"] = "ok"
    /\ Len(commentArg) = 1
    /\ result \in {"true", "false"}

\* C4: a failed notarization does not abort the run: when the commit, the
\* comment refresh and the check rerun succeed, execute returns true or false.
C4_NotarizationFailureTolerated ==
    ( /\ callState["postToBlockchain"] = "failed"
      /\ callState["commitClaFile"] = "ok"
      /\ callState["setClaComment"] = "ok"
      /\ callState["rerunLastCheck"] = "ok"
      /\ pc = "done" ) => result \in {"true", "false"}

\* C5: with a new signature each of the four write-back calls is issued
\* exactly once, and the result is determined only after all four resolved.
C5_WriteBackBeforeResult ==
    Len(newSignature) > 0 =>
        /\ \A c \in WriteBack : callCount[c] = 1
        /\ (pc = "failing" \/ failed \/ result \in {"true", "false"}) =>
               \A c \in WriteBack : callState[c] = "ok"

C5_Witness ==
    /\ Len(newSignature) > 0
    /\ result = "true"
    /\ \A c \in WriteBack : callState[c] = "ok" /\ callCount[c] = 1

\* C6: without a new signature execute refreshes the status comment once,
\* with the map of the file as fetched, and issues no commit, notarization or
\* check rerun; a commit is only ever issued with a new signature.
C6_NoWriteBackWithoutSignature ==
    /\ ( /\ callState["getNewSignatures"] = "ok"
         /\ pc # "awaitSignatures"
         /\ Len(newSignature) = 0 ) =>
            /\ callCount["setClaComment"] = 1
            /\ \A c \in WriteBack \ {"setClaComment"} : callCount[c] = 0
            /\ commentArg = MapSignedAuthors(fetchedCla, requiredAuthors)
            /\ claFile = fetchedCla
    /\ \A c \in WriteBack \ {"setClaComment"} :
            callCount[c] > 0 => Len(newSignature) > 0

C6_Witness ==
    /\ callState["getNewSignatures"] = "ok"
    /\ Len(newSignature) = 0
    /\ Len(fetchedCla) > 0
    /\ callCount["setClaComment"] = 1
    /\ callState["setClaComment"] = "ok"
    /\ result = "true"

\* C7: when every commit author is allowlisted or an organization member,
\* execute returns true without touching the CLA file, the comments, the
\* notarization or the check, and without the failure signal.
C7_NobodyRequiredNoEffect ==
    ( /\ Evaluating
      /\ \A c \in {"getAuthors"} \cup
                  (IF allowOrganizationMembers THEN {"listMembers"} ELSE {}) :
             callState[c] = "ok"
      /\ pc # "awaitFetch"
      /\ \A i \in DOMAIN rawAuthors :
             \/ rawAuthors[i].name \in allowlist
             \/ \E j \in DOMAIN organizationMembers :
                    organizationMembers[j] = rawAuthors[i].name ) =>
        /\ pc = "done"
        /\ result = "true"
        /\ ~failed
        /\ \A c \in Calls \ {"getAuthors", "listMembers"} : callCount[c] = 0

C7_Witness ==
    /\ Evaluating
    /\ Len(rawAuthors) = 2
    /\ callState["getAuthors"] = "ok"
    /\ Len(requiredAuthors) = 0
    /\ result = "true"

\* C8: an issue comment outside a pull request makes execute return true
\* without calling any collaborator.
C8_IssueCommentSkipped ==
    (payloadAction = "issue_comment" /\ ~isPullRequest) =>
        /\ \A c \in Calls : callCount[c] = 0 /\ callState[c] = "idle"
        /\ pc \in {"start", "done"}
        /\ result \in {"none", "true"}
        /\ ~failed

C8_Witness ==
    /\ payloadAction = "issue_comment"
    /\ ~isPullRequest
    /\ result = "true"

\* C9: once a fetch of the authors, the organization members, the CLA file or
\* the comments has failed, execute issues no further call, in particular no
\* write-back call, and returns no value: it rejects.
C9_FetchFailureAborts ==
    /\ (\E c \in {"getAuthors", "listMembers", "getClaFile", "getNewSignatures"} :
            callState[c] = "failed") =>
        /\ \A c \in WriteBack : callCount[c] = 0
        /\ result \in {"none", "thrown"}
        /\ pc = "done" => result = "thrown"
        /\ ~failed
    /\ (callState["getAuthors"] = "failed" \/ callState["listMembers"] = "failed")
           => callCount["getClaFile"] = 0
    /\ callState["getClaFile"] = "failed" => callCount["getNewSignatures"] = 0

C9_Witness ==
    /\ callState["getNewSignatures"] = "failed"
    /\ Len(scanned) = 0
    /\ result = "thrown"

\* C10: with new signatures the commit message and the notarization name
\* exactly the authors this run appended to the CLA file, and the status
\* comment gets the map that decides the result: recomputed from the updated
\* file, new signers signed, the other required authors as they were.
AppendedToFile == SubSeq(claFile, Len(fetchedCla) + 1, Len(claFile))

C10_WriteBackUsesRecomputedMap ==
    Len(newSignature) > 0 =>
        /\ SubSeq(claFile, 1, Len(fetchedCla)) = fetchedCla
        /\ newSignature = AppendedToFile
        /\ Names(newSignature) \subseteq Names(requiredAuthors) \ Names(fetchedCla)
        /\ commitMessage = "Add " \o Join(MapSeq(AppendedToFile, NameOf)) \o "."
        /\ posted = AppendedToFile
        /\ commentArg = authorMap
        /\ DOMAIN commentArg = DOMAIN requiredAuthors
        /\ \A i \in DOMAIN commentArg :
              /\ commentArg[i].name = requiredAuthors[i].name
              /\ commentArg[i].signed =
                    (commentArg[i].name \in Names(fetchedCla) \cup Names(newSignature))
        /\ result = "true" => \A i \in DOMAIN commentArg : commentArg[i].signed
        /\ result = "false" => \E i \in DOMAIN commentArg : ~commentArg[i].signed

C10_Witness ==
    /\ requiredAuthors = <<Author("alice"), Author("bob")>>
    /\ fetchedCla = <<>>
    /\ claFile = <<Author("alice")>>
    /\ commitMessage = "Add alice."
    /\ posted = <<Author("alice")>>
    /\ commentArg = <<[name |-> "alice", signed |-> TRUE],
                      [name |-> "bob", signed |-> FALSE]>>
    /\ \A c \in WriteBack : callState[c] = "ok"
    /\ result = "false"

====
